---- MODULE Spec2Model ----
(***************************************************************************)
(* A model of the MPKG unpacker (src/mpkg.rs): the stream primitives       *)
(* read_int32 and copy_stream_data, the per-archive decoder unpack_mpkg,   *)
(* and the batch loop of main.                                             *)
(*                                                                         *)
(* An archive file is a sequence of bytes (0..255).  Text is a sequence of *)
(* character codes, a path is a sequence of components from the            *)
(* filesystem root, and a component is a sequence of character codes.      *)
(* The filesystem is the pair (files, dirs): files maps the resolved path  *)
(* of every regular file to its contents, dirs is the set of resolved      *)
(* paths of the directories.  There are no symbolic links, the archive     *)
(* being read is not among the files written, allocations succeed, and the *)
(* devices do not fail except through the explicit IoFault action of       *)
(* BatchSpec and RunSpec.                                                  *)
(***************************************************************************)
EXTENDS Integers, Sequences, FiniteSets, TLC

\* ------------------------------------------------------------------ bounds
\* Most TOC entries an enumerated archive declares.
MaxMembers == 2
\* Largest payload size an enumerated TOC entry declares.
MaxSize == 3
\* Capacity of the copy buffer in the model (the program's is 1 MiB; the
\* loop of copy_stream_data only compares it with the remaining length).
MaxBuffer == 2

\* Most directory entries of an enumerated batch.
MaxBatch == 2

BUFFER_SIZE == MaxBuffer

\* ------------------------------------------------------- bytes and integers
Min(a, b) == IF a < b THEN a ELSE b

Max(a, b) == IF a < b THEN b ELSE a

\* the four bytes read as big-endian
U32FromBe(b) == b[4] + 256 * b[3] + 65536 * b[2] + 16777216 * b[1]

\* u32::from_le_bytes
U32FromLe(b) == b[1] + 256 * b[2] + 65536 * b[3] + 16777216 * b[4]

\* The little-endian layout of a u32, used to build the input files.
U32ToLe(v) == << v % 256, (v \div 256) % 256, (v \div 65536) % 256, (v \div 16777216) % 256 >>

\* Bytes a reader at cursor pos can still get from data (a cursor past the
\* end of the file, which a seek can produce, reads nothing).
Available(data, pos) == IF pos >= Len(data) THEN 0 ELSE Len(data) - pos

Slice(data, pos, n) == SubSeq(data, pos + 1, pos + n)

\* Read::read in place of read_exact: a short read passes, the buffer keeping
\* its zeros where the file had nothing.
ReadShort(data, pos, n) ==
    [ok |-> TRUE, pos |-> pos + n,
     buf |-> [k \in 1..n |-> IF pos + k <= Len(data) THEN data[pos + k] ELSE 0]]

\* Read::read_exact of n bytes: all n or UnexpectedEof, having consumed what
\* there was.
ReadExact(data, pos, n) ==
    IF Available(data, pos) >= n
    THEN [ok |-> TRUE, pos |-> pos + n, buf |-> Slice(data, pos, n)]
    ELSE [ok |-> FALSE, pos |-> Max(pos, Len(data)), buf |-> << >>]

\* read_int32
ReadInt32(data, pos) ==
    LET r == ReadExact(data, pos, 4)
    IN  IF r.ok
        THEN [ok |-> TRUE, pos |-> r.pos, val |-> U32FromLe(r.buf)]
        ELSE [ok |-> FALSE, pos |-> r.pos, val |-> 0]

\* input_stream.seek(SeekFrom::Current(4)): a seek moves the cursor whether
\* or not the file has that many bytes left.
SeekCurrent(pos, off) == pos + off

\* String::from_utf8_lossy on the bytes the model uses: an ASCII byte is its
\* own character, the byte 255 is never valid UTF-8 and becomes U+FFFD.
Lossy(bytes) == [k \in 1..Len(bytes) |-> IF bytes[k] < 128 THEN bytes[k] ELSE 65533]

\* --------------------------------------------------------------- results
None == [kind |-> "None", expected |-> 0, remaining |-> 0]

OkResult == [kind |-> "Ok", expected |-> 0, remaining |-> 0]

\* io::ErrorKind::UnexpectedEof of read_exact ("failed to fill whole buffer")
TruncatedInput == [kind |-> "TruncatedInput", expected |-> 0, remaining |-> 0]

\* the UnexpectedEof copy_stream_data builds, with its two numbers
TruncatedPayload(length, rem) == [kind |-> "TruncatedPayload", expected |-> length, remaining |-> rem]

\* an error of create_dir_all or File::create
FilesystemError == [kind |-> "FilesystemError", expected |-> 0, remaining |-> 0]

\* any other io::Error of the operating system
IoError == [kind |-> "IoError", expected |-> 0, remaining |-> 0]

\* ----------------------------------------------------------------- paths
Slash == 47

Dot == 46

DotDot == << Dot, Dot >>

RECURSIVE Split(_, _, _)
\* The components of text from index k on, cur being the component begun.
Split(text, k, cur) ==
    IF k > Len(text)
    THEN IF cur = << >> THEN << >> ELSE << cur >>
    ELSE IF text[k] = Slash
         THEN (IF cur = << >> THEN << >> ELSE << cur >>) \o Split(text, k + 1, << >>)
         ELSE Split(text, k + 1, Append(cur, text[k]))

\* Path::components (without the root)
Components(text) == Split(text, 1, << >>)

\* Path::is_absolute
IsAbsolute(text) == Len(text) > 0 /\ text[1] = Slash

\* Path::join: an absolute argument replaces the base.
Join(base, text) == IF IsAbsolute(text) THEN Components(text) ELSE base \o Components(text)

\* Path::parent of a path that has one
Parent(p) == SubSeq(p, 1, Len(p) - 1)

RECURSIVE Resolve(_)
\* What the operating system makes of a path: ".." steps to the parent,
\* and the parent of the root is the root.
Resolve(p) ==
    IF p = << >>
    THEN << >>
    ELSE LET up == Resolve(Parent(p))
         IN  IF p[Len(p)] = DotDot
             THEN (IF up = << >> THEN << >> ELSE Parent(up))
             ELSE Append(up, p[Len(p)])

RECURSIVE MkdirFrom(_, _, _, _)
\* fs::create_dir_all from the k-th prefix of p on: every prefix becomes a
\* directory; a prefix that is a regular file is the error, and the prefixes
\* before it stay created.
MkdirFrom(p, k, fl, ds) ==
    IF k > Len(p)
    THEN [ok |-> TRUE, dirs |-> ds]
    ELSE LET r == Resolve(SubSeq(p, 1, k))
         IN  IF r \in DOMAIN fl
             THEN [ok |-> FALSE, dirs |-> ds]
             ELSE MkdirFrom(p, k + 1, fl, ds \cup {r})

\* fs::create_dir_all
CreateDirAll(p, fl, ds) == MkdirFrom(p, 1, fl, ds)

\* File::create can open (create or truncate) the path: not a directory.
CanCreate(p, ds) == Resolve(p) \notin ds

\* the files after File::create(p): p exists and is empty
Truncated(fl, r) == [q \in DOMAIN fl \cup {r} |-> IF q = r THEN << >> ELSE fl[q]]

\* a single write of one byte where write_all belongs
WrittenOnce(fl, r, bytes) == [fl EXCEPT ![r] = @ \o SubSeq(bytes, 1, 1)]

\* the files after write_all(bytes) to the file at r
Written(fl, r, bytes) == [fl EXCEPT ![r] = @ \o bytes]

\* ---------------------------------------------------------- input files
Zero4 == << 0, 0, 0, 0 >>

\* "v1"
HeaderV1 == << 118, 49 >>

\* header texts: none, "v1"
Headers == {<< >>, HeaderV1}

\* "out", the output directory the user gave
OutputDir == << << 111, 117, 116 >> >>

StemS == << 115 >>

StemT == << 116 >>

\* member names: "a", "d/a", "../a", "/a"
NameA == << 97 >>

NameNested == << 100, Slash, 97 >>

NameParent == << Dot, Dot, Slash, 97 >>

NameAbsolute == << Slash, 97 >>

\* further names: "d" (a file where "d/a" needs a directory), the empty
\* name, and a name that is not valid UTF-8
NameDir == << 100 >>

NameEmpty == << >>

NameInvalid == << 255 >>

PlainNames == {NameA, NameNested}

Names == {NameA, NameNested, NameDir, NameParent, NameAbsolute, NameEmpty, NameInvalid}

\* values of the reserved field
ReservedValues == {Zero4, << 2, 0, 255, 1 >>}

Members(names, reserved, sizes) == [name : names, reserved : reserved, size : sizes]

MemberSeqs(names, reserved, sizes) ==
    UNION {[1..n -> Members(names, reserved, sizes)] : n \in 0..MaxMembers}

RECURSIVE SumSizes(_, _)
\* the sizes of the first k members
SumSizes(ms, k) == IF k = 0 THEN 0 ELSE SumSizes(ms, k - 1) + ms[k].size

RECURSIVE Toc(_, _)
\* the TOC block of the first k members
Toc(ms, k) ==
    IF k = 0
    THEN << >>
    ELSE Toc(ms, k - 1) \o U32ToLe(Len(ms[k].name)) \o ms[k].name
         \o ms[k].reserved \o U32ToLe(ms[k].size)

\* the payload area: byte j of it is 9 + j, so that every region differs
Payload(n) == [j \in 1..n |-> 9 + j]

\* The bytes of the well-formed archive with header h and members ms (the
\* layout unpack_mpkg reads).
Encode(h, ms) ==
    U32ToLe(Len(h)) \o h \o U32ToLe(Len(ms)) \o Toc(ms, Len(ms))
    \o Payload(SumSizes(ms, Len(ms)))

\* the offset at which the TOC block of the archive ends
TocEnd(h, ms) == 4 + Len(h) + 4 + Len(Toc(ms, Len(ms)))

\* A directory entry holding the first cut bytes of the archive (h, ms).
\* header, members and cut describe the file and are never read by the program.
ArchiveFile(stem, h, ms, cut) ==
    [kind |-> "mpkg", stem |-> stem, data |-> SubSeq(Encode(h, ms), 1, cut),
     header |-> h, members |-> ms, cut |-> cut]

\* a directory entry main skips (no .mpkg extension, or not a file)
OtherEntry == [kind |-> "other", stem |-> << >>, data |-> << >>,
               header |-> << >>, members |-> << >>, cut |-> 0]

\* a directory entry whose iteration fails (entry? in main)
BadEntry == [kind |-> "ioerr", stem |-> << >>, data |-> << >>,
             header |-> << >>, members |-> << >>, cut |-> 0]

\* ------------------------------------------------------------------ state
VARIABLES
    batch,       \* main: what read_dir yields, in order
    idx,         \* main: the number of directory entries taken so far
    pc,          \* the program's position
    pos,         \* unpack_mpkg: the cursor of input_stream
    file_count,  \* unpack_mpkg: file_count
    file_list,   \* unpack_mpkg: file_list, the index
    i,           \* unpack_mpkg: the number of entries whose extraction has begun
    length,      \* copy_stream_data: length
    remaining,   \* copy_stream_data: remaining
    out_path,    \* unpack_mpkg: the resolved path of output_stream
    result,      \* unpack_mpkg: its return value, None while it runs
    files,       \* the filesystem: resolved path -> contents
    dirs,        \* the filesystem: the directories
    outcomes,    \* main: what it reported, one record per archive attempted
                 \* (with the index the archive's run had built, as history)
    log          \* history: one record per File::create, with the bytes written to it

vars == << batch, idx, pc, pos, file_count, file_list, i, length, remaining,
           out_path, result, files, dirs, outcomes, log >>

\* the directory entry main is at
Cur == batch[idx]

\* output_dir.join(input_file.file_stem())
UnpackedFolder == Append(OutputDir, Cur.stem)

InitWith(b) ==
    /\ batch = b
    /\ idx = 0
    /\ pc = "main"
    /\ pos = 0
    /\ file_count = 0
    /\ file_list = << >>
    /\ i = 0
    /\ length = 0
    /\ remaining = 0
    /\ out_path = << >>
    /\ result = None
    /\ files = << >>
    /\ dirs = {<< >>}
    /\ outcomes = << >>
    /\ log = << >>

\* One archive with plain member names and payloads of every size, cut at
\* every offset: a well-formed archive and each of its proper prefixes.
InitSizes ==
    \E ms \in MemberSeqs(PlainNames, {Zero4}, 0..MaxSize) :
        \E cut \in 0..Len(Encode(HeaderV1, ms)) :
            InitWith(<< ArchiveFile(StemS, HeaderV1, ms, cut) >>)

\* One archive with either header, member names of every kind and payloads
\* of at most one byte, whole or without its final byte.
InitNames ==
    \E h \in Headers :
        \E ms \in MemberSeqs(Names, {Zero4}, 0..1) :
            \E missing \in 0..1 :
                InitWith(<< ArchiveFile(StemS, h, ms, Len(Encode(h, ms)) - missing) >>)

Init == InitSizes \/ InitNames

\* ---------------------------------------------------------------- actions
\* unpack_mpkg returns r
Return(r) ==
    /\ result' = r
    /\ pc' = "ret"

\* main, lines 130-136: the next directory entry
MainNext ==
    /\ pc = "main"
    /\ idx < Len(batch)
    /\ idx' = idx + 1
    /\ pc' = IF batch[idx + 1].kind = "ioerr" THEN "exit_err"
             ELSE IF batch[idx + 1].kind = "mpkg" THEN "open" ELSE "main"
    /\ UNCHANGED << batch, pos, file_count, file_list, i, length, remaining,
                    out_path, result, files, dirs, outcomes, log >>

\* main, line 143: the directory is exhausted
MainReturn ==
    /\ pc = "main"
    /\ idx = Len(batch)
    /\ pc' = "exit"
    /\ UNCHANGED << batch, idx, pos, file_count, file_list, i, length, remaining,
                    out_path, result, files, dirs, outcomes, log >>

\* unpack_mpkg, lines 43-47: open the file, create the output folder
Open ==
    /\ pc = "open"
    /\ LET m == CreateDirAll(UnpackedFolder, files, dirs)
       IN  /\ dirs' = m.dirs
           /\ IF m.ok
              THEN /\ pc' = "header"
                   /\ result' = None
              ELSE Return(FilesystemError)
    /\ pos' = 0
    /\ file_count' = 0
    /\ file_list' = << >>
    /\ i' = 0
    /\ length' = 0
    /\ remaining' = 0
    /\ out_path' = << >>
    /\ UNCHANGED << batch, idx, files, outcomes, log >>

\* unpack_mpkg, lines 50-58: header length, header text, file count
ReadHeader ==
    /\ pc = "header"
    /\ LET hl == ReadInt32(Cur.data, pos)
           hb == ReadExact(Cur.data, hl.pos, hl.val)
           fc == ReadInt32(Cur.data, hb.pos)
       IN  IF ~hl.ok
           THEN /\ pos' = hl.pos
                /\ file_count' = file_count
                /\ Return(TruncatedInput)
           ELSE IF ~hb.ok
           THEN /\ pos' = hb.pos
                /\ file_count' = file_count
                /\ Return(TruncatedInput)
           ELSE IF ~fc.ok
           THEN /\ pos' = fc.pos
                /\ file_count' = file_count
                /\ Return(TruncatedInput)
           ELSE /\ pos' = fc.pos
                /\ file_count' = fc.val
                /\ pc' = "toc"
                /\ result' = result
    /\ UNCHANGED << batch, idx, file_list, i, length, remaining, out_path,
                    files, dirs, outcomes, log >>

\* the first reserved byte taken for a count of further bytes to skip
SkipReservedCounted(data, p) ==
    SeekCurrent(p, 4 + (IF p + 1 <= Len(data) THEN data[p + 1] ELSE 0))

\* The cursor after the 4 reserved bytes of a TOC entry whose name ended at p.
SkipReserved(data, p) == SeekCurrent(p, 4)

\* unpack_mpkg, lines 63-73: one TOC entry read from cursor p
TocEntry(data, p) ==
    LET nl == ReadInt32(data, p)
        nb == ReadExact(data, nl.pos, nl.val)
        sk == SkipReserved(data, nb.pos)
        sz == ReadInt32(data, sk)
    IN  IF ~nl.ok THEN [ok |-> FALSE, pos |-> nl.pos, name |-> << >>, size |-> 0]
        ELSE IF ~nb.ok THEN [ok |-> FALSE, pos |-> nb.pos, name |-> << >>, size |-> 0]
        ELSE IF ~sz.ok THEN [ok |-> FALSE, pos |-> sz.pos, name |-> << >>, size |-> 0]
        ELSE [ok |-> TRUE, pos |-> sz.pos, name |-> Lossy(nb.buf), size |-> sz.val]

\* unpack_mpkg, lines 62-74: one iteration of the TOC loop
ReadTocEntry ==
    /\ pc = "toc"
    /\ Len(file_list) < file_count
    /\ LET e == TocEntry(Cur.data, pos)
       IN  /\ pos' = e.pos
           /\ IF e.ok
              THEN /\ file_list' = Append(file_list, [name |-> e.name, size |-> e.size])
                   /\ UNCHANGED << pc, result >>
              ELSE /\ file_list' = file_list
                   /\ Return(TruncatedInput)
    /\ UNCHANGED << batch, idx, file_count, i, length, remaining, out_path,
                    files, dirs, outcomes, log >>

\* unpack_mpkg, line 62: the TOC loop ends after file_count entries
TocDone ==
    /\ pc = "toc"
    /\ Len(file_list) = file_count
    /\ pc' = "extract"
    /\ UNCHANGED << batch, idx, pos, file_count, file_list, i, length, remaining,
                    out_path, result, files, dirs, outcomes, log >>

\* the path unpack_mpkg opens for an entry named name
FullOutputPath(name) == Join(UnpackedFolder, name)

\* unpack_mpkg, lines 77-95: the next entry: its directories, its file, and
\* the call of copy_stream_data
BeginEntry ==
    /\ pc = "extract"
    /\ i < Len(file_list)
    /\ i' = i + 1
    /\ LET e == file_list[i + 1]
           full == FullOutputPath(e.name)
           m == IF full = << >> THEN [ok |-> TRUE, dirs |-> dirs]
                ELSE CreateDirAll(Parent(full), files, dirs)
       IN  /\ dirs' = m.dirs
           /\ IF m.ok /\ CanCreate(full, m.dirs)
              THEN /\ files' = Truncated(files, Resolve(full))
                   /\ out_path' = Resolve(full)
                   /\ log' = Append(log, [arch |-> idx, path |-> Resolve(full),
                                          from |-> pos, data |-> << >>])
                   /\ length' = e.size
                   /\ remaining' = e.size
                   /\ pc' = "copy"
                   /\ result' = result
              ELSE /\ UNCHANGED << files, out_path, log, length, remaining >>
                   /\ Return(FilesystemError)
    /\ UNCHANGED << batch, idx, pos, file_count, file_list, outcomes >>

\* the whole buffer offered to read, whatever remains
ToReadWholeBuffer(rem) == BUFFER_SIZE

\* copy_stream_data, line 21
ToRead(rem) == Min(BUFFER_SIZE, rem)

\* the error reporting the bytes transferred where the bytes remaining belong
EofErrorTransferred(len, rem) == TruncatedPayload(len, len - rem)

\* copy_stream_data, lines 23-30: the error of a read that returned nothing
EofError(len, rem) == TruncatedPayload(len, rem)

\* copy_stream_data, lines 20-34: one iteration of the loop; the read may
\* deliver any number of bytes from 1 to to_read that the file still has
CopyStep ==
    /\ pc = "copy"
    /\ remaining > 0
    /\ IF Available(Cur.data, pos) = 0
       THEN /\ Return(EofError(length, remaining))
            /\ UNCHANGED << pos, files, remaining, log >>
       ELSE \E bytes_read \in 1..Min(ToRead(remaining), Available(Cur.data, pos)) :
                /\ pos' = pos + bytes_read
                /\ files' = Written(files, out_path, Slice(Cur.data, pos, bytes_read))
                /\ log' = [log EXCEPT ![Len(log)].data = @ \o Slice(Cur.data, pos, bytes_read)]
                /\ remaining' = remaining - bytes_read
                /\ UNCHANGED << pc, result >>
    /\ UNCHANGED << batch, idx, file_count, file_list, i, length, out_path,
                    dirs, outcomes >>

\* copy_stream_data, lines 20 and 35: the loop ends, Ok(())
CopyReturn ==
    /\ pc = "copy"
    /\ remaining = 0
    /\ pc' = "extract"
    /\ UNCHANGED << batch, idx, pos, file_count, file_list, i, length, remaining,
                    out_path, result, files, dirs, outcomes, log >>

\* Ok(()) returned from inside the extraction loop
FinishEarly ==
    /\ pc = "extract"
    /\ result' = OkResult
    /\ pc' = "ret"
    /\ UNCHANGED << batch, idx, pos, file_count, file_list, i, length, remaining,
                    out_path, files, dirs, outcomes, log >>

\* unpack_mpkg, lines 97-100: every entry is extracted, Ok(())
Finish ==
    /\ pc = "extract"
    /\ i = Len(file_list)
    /\ Return(OkResult)
    /\ UNCHANGED << batch, idx, pos, file_count, file_list, i, length, remaining,
                    out_path, files, dirs, outcomes, log >>

\* the error of unpack_mpkg propagated out of main's loop
ReportOrStop ==
    /\ pc = "ret"
    /\ outcomes' = Append(outcomes, [arch |-> idx, result |-> result, index |-> file_list])
    /\ pc' = IF result.kind = "Ok" THEN "main" ELSE "exit"
    /\ UNCHANGED << batch, idx, pos, file_count, file_list, i, length, remaining,
                    out_path, result, files, dirs, log >>

\* main, lines 136-139: report the archive's result and go on
Report ==
    /\ pc = "ret"
    /\ outcomes' = Append(outcomes, [arch |-> idx, result |-> result, index |-> file_list])
    /\ pc' = "main"
    /\ UNCHANGED << batch, idx, pos, file_count, file_list, i, length, remaining,
                    out_path, result, files, dirs, log >>

Next ==
    \/ MainNext
    \/ MainReturn
    \/ Open
    \/ ReadHeader
    \/ ReadTocEntry
    \/ TocDone
    \/ BeginEntry
    \/ CopyStep
    \/ CopyReturn
    \/ Finish
    \/ Report

Spec == Init /\ [][Next]_vars

\* ------------------------------------------------------------- batches
\* An io::Error of the operating system at any `?` of unpack_mpkg (lines
\* 43-95): the function returns it at once.
IoFault ==
    /\ pc \in {"open", "header", "toc", "extract", "copy"}
    /\ Return(IoError)
    /\ UNCHANGED << batch, idx, pos, file_count, file_list, i, length, remaining,
                    out_path, files, dirs, outcomes, log >>

NextBatch == Next \/ IoFault

\* the stem of the k-th directory entry: file names of one directory differ
StemOf(k) == << 114 + k >>

\* two members with payloads, a member whose file cannot be created
TwoMembers ==
    << [name |-> NameA, reserved |-> Zero4, size |-> 1],
       [name |-> NameNested, reserved |-> Zero4, size |-> 2] >>

UncreatableMember == << [name |-> NameEmpty, reserved |-> Zero4, size |-> 1] >>

\* What the k-th directory entry can be: a whole archive, one cut inside its
\* TOC, one without its final byte, one without members, one whose member
\* cannot be created, an entry main skips, an entry whose iteration fails.
BatchEntries(k) ==
    { ArchiveFile(StemOf(k), HeaderV1, TwoMembers, Len(Encode(HeaderV1, TwoMembers))),
      ArchiveFile(StemOf(k), HeaderV1, TwoMembers, 13),
      ArchiveFile(StemOf(k), HeaderV1, TwoMembers, Len(Encode(HeaderV1, TwoMembers)) - 1),
      ArchiveFile(StemOf(k), HeaderV1, << >>, Len(Encode(HeaderV1, << >>))),
      ArchiveFile(StemOf(k), HeaderV1, UncreatableMember, Len(Encode(HeaderV1, UncreatableMember))),
      OtherEntry,
      BadEntry }

InitBatch ==
    \E n \in 0..MaxBatch :
        \E b \in [1..n -> UNION {BatchEntries(k) : k \in 1..n}] :
            /\ \A k \in 1..n : b[k] \in BatchEntries(k)
            /\ InitWith(b)

\* The program runs on its own: every step it can take, it takes.  A fault
\* of the operating system may happen and need not.
BatchSpec == InitBatch /\ [][NextBatch]_vars /\ WF_vars(Next)

\* ------------------------------------------------------ one run, with faults
NameCycle == << NameA, NameNested, NameEmpty >>

\* n members: the names in turn, the k-th with a payload of k bytes (within
\* MaxSize)
ChainMembers(n) ==
    [k \in 1..n |-> [name |-> NameCycle[((k - 1) % 3) + 1], reserved |-> Zero4,
                     size |-> k % (MaxSize + 1)]]

\* One archive of 0..MaxMembers members, cut at every offset.
InitRun ==
    \E n \in 0..MaxMembers :
        \E cut \in 0..Len(Encode(HeaderV1, ChainMembers(n))) :
            InitWith(<< ArchiveFile(StemS, HeaderV1, ChainMembers(n), cut) >>)

\* The run of one archive, the operating system failing where it will.
RunSpec == InitRun /\ [][NextBatch]_vars /\ WF_vars(Next)

\* ------------------------------------------------- pairs of archives
\* the members ms with the reserved fields rs
WithReserved(ms, rs) ==
    [k \in 1..Len(ms) |-> [name |-> ms[k].name, reserved |-> rs[k], size |-> ms[k].size]]

PairSizes == {0, 2}

\* Two archives that differ at most in their reserved fields (the first has
\* zeros there), cut at the same offset.
InitPair ==
    \E ms \in MemberSeqs(PlainNames, {Zero4}, PairSizes) :
        \E rs \in [1..Len(ms) -> ReservedValues] :
            \E cut \in 0..Len(Encode(HeaderV1, ms)) :
                InitWith(<< ArchiveFile(StemS, HeaderV1, ms, cut),
                            ArchiveFile(StemT, HeaderV1, WithReserved(ms, rs), cut) >>)

PairSpec == InitPair /\ [][Next]_vars

\* ------------------------------------------------- what the claims speak of
\* the well-formed archive the file at hand was cut from
Whole == Encode(Cur.header, Cur.members)

\* the offset in the archive at which the payload of its k-th member starts
RegionStart(k) == TocEnd(Cur.header, Cur.members) + SumSizes(Cur.members, k - 1)

\* the payload of the k-th member
Region(k) == Slice(Whole, RegionStart(k), Cur.members[k].size)

\* the record of the file opened last
Last == log[Len(log)]

\* copy_stream_data is running, has returned Ok, has returned its error
CopyRunning == pc = "copy"

CopyOk == pc = "extract" /\ i > 0

CopyFailed == pc = "ret" /\ result.kind = "TruncatedPayload"

\* the file ends inside the header or the TOC block of its archive
InToc(e) == e.cut < TocEnd(e.header, e.members)

\* the path at which the program opens the file of the k-th entry of its index
Dest(k) == Resolve(FullOutputPath(file_list[k].name))

\* output_root/archive_stem/name for the k-th member of the archive
ClaimedDest(k) == Resolve(UnpackedFolder \o Components(Lossy(Cur.members[k].name)))

\* the directories create_dir_all makes for the k-th entry of the index
DirsFor(k) ==
    LET full == FullOutputPath(file_list[k].name)
    IN  {Resolve(SubSeq(full, 1, n)) : n \in 1..(Len(full) - 1)}

\* the directories that exist once the archive's output folder is created
BaseDirs == {<< >>, OutputDir, UnpackedFolder}

\* p is output_root/archive_stem or lies below it
Inside(p) ==
    /\ Len(p) >= Len(UnpackedFolder)
    /\ SubSeq(p, 1, Len(UnpackedFolder)) = UnpackedFolder

\* no entry after the j-th, up to the k-th, opens the destination of the j-th
NotReopened(j, k) == \A m \in (j + 1)..k : Dest(m) # Dest(j)

\* archive k of the batch was attempted and its result reported
Reported(k) == \E o \in 1..Len(outcomes) : outcomes[o].arch = k

\* the result a directory entry's archive gives when the operating system
\* does not fail
OwnKind(e) ==
    IF InToc(e) THEN "TruncatedInput"
    ELSE IF e.members = UncreatableMember THEN "FilesystemError"
    ELSE IF e.cut < Len(Encode(e.header, e.members)) THEN "TruncatedPayload"
    ELSE "Ok"

\* The state of the archive's run in the state machine of the decoder; the
\* number is the i of Extracting(i), 0 elsewhere.  Start is a run that has
\* not opened its file yet, Idle is main between two runs.
ArchState ==
    IF pc = "open" THEN << "Start", 0 >>
    ELSE IF pc = "header" THEN << "Opened", 0 >>
    ELSE IF pc = "toc" THEN << "HeaderRead", 0 >>
    ELSE IF pc = "extract" /\ i = 0 THEN << "IndexBuilt", 0 >>
    ELSE IF pc \in {"extract", "copy"} THEN << "Extracting", i >>
    ELSE IF pc = "ret" THEN (IF result.kind = "Ok" THEN << "Done", 0 >> ELSE << "Failed", 0 >>)
    ELSE << "Idle", 0 >>

\* the transitions of the state machine, n being the number of TOC entries
Allowed(s, t, n) ==
    \/ s = t
    \/ s[1] = "Idle" /\ t[1] = "Start"
    \/ s[1] = "Start" /\ t[1] = "Opened"
    \/ s[1] = "Opened" /\ t[1] = "HeaderRead"
    \/ s[1] = "HeaderRead" /\ t[1] = "IndexBuilt"
    \/ s[1] = "IndexBuilt" /\ t = << "Extracting", 1 >>
    \/ s[1] = "IndexBuilt" /\ t[1] = "Done" /\ n = 0
    \/ s[1] = "Extracting" /\ t = << "Extracting", s[2] + 1 >> /\ s[2] < n
    \/ s[1] = "Extracting" /\ t[1] = "Done" /\ s[2] = n
    \/ s[1] \in {"Start", "Opened", "HeaderRead", "IndexBuilt", "Extracting"} /\ t[1] = "Failed"
    \/ s[1] \in {"Done", "Failed"} /\ t[1] = "Idle"

\* the files opened for the archive at hand
OpenedFiles == {k \in 1..Len(log) : log[k].arch = idx}

\* a path with the stems of the two archives of a pair exchanged
Swap(p) ==
    IF Len(p) >= 2 /\ p[2] = StemS THEN [p EXCEPT ![2] = StemT]
    ELSE IF Len(p) >= 2 /\ p[2] = StemT THEN [p EXCEPT ![2] = StemS]
    ELSE p

TypeOK ==
    /\ pc \in {"main", "open", "header", "toc", "extract", "copy", "ret", "exit", "exit_err"}
    /\ idx \in 0..Len(batch)
    /\ i \in 0..Len(file_list)
    /\ Len(file_list) <= file_count
    /\ remaining \in 0..length

\* ------------------------------------------------------------------ claims
\* C1: whenever the input can still yield at least `length` bytes from the
\* cursor at which copy_stream_data is called, the call does not fail, and at
\* every point of it the output holds exactly the bytes of the input between
\* that cursor and the current one, in order, the cursor has advanced by
\* length - remaining and never by more than length; on return it has
\* advanced by exactly length (by nothing, with nothing written, for length 0).
C1_CopyExact ==
    ((CopyRunning \/ CopyOk \/ CopyFailed) /\ Available(Cur.data, Last.from) >= length) =>
        /\ ~CopyFailed
        /\ remaining >= 0
        /\ pos = Last.from + (length - remaining)
        /\ Last.data = Slice(Cur.data, Last.from, length - remaining)
        /\ files[out_path] = Last.data
        /\ CopyOk => (remaining = 0 /\ Len(Last.data) = length /\ pos = Last.from + length)

\* C1 witness: a copy longer than the buffer has returned Ok with all its
\* bytes while the input still holds more.
C1_Witness ==
    /\ CopyOk
    /\ length > BUFFER_SIZE
    /\ Len(Last.data) = length
    /\ Available(Cur.data, Last.from) > length

\* C2: a call of copy_stream_data that has ended has failed with the
\* truncated-payload error exactly when the input held fewer than `length`
\* bytes from the cursor of the call; the error then carries expected =
\* length and remaining = length minus the bytes transferred, and every byte
\* the input had is in the output.
C2_TruncatedIff ==
    (CopyOk \/ CopyFailed) =>
        /\ CopyFailed <=> (Available(Cur.data, Last.from) < length)
        /\ CopyFailed =>
              /\ result.expected = length
              /\ result.remaining = length - Len(Last.data)
              /\ Len(Last.data) = Available(Cur.data, Last.from)
              /\ files[out_path] = Last.data

\* C2 witness: the copy failed after transferring 2 of 3 bytes.
C2_Witness ==
    /\ CopyFailed
    /\ length = 3
    /\ Len(Last.data) = 2

\* C5: when the file ends inside the header or the TOC block, no member file
\* is ever created and the run never reaches the extraction pass; it returns
\* the truncated-input error.  In every run the extraction pass starts only
\* after all member_count TOC entries have been read.
C5_TruncatedToc ==
    /\ (idx >= 1 /\ InToc(Cur)) =>
          /\ pc \notin {"extract", "copy"}
          /\ DOMAIN files = {}
          /\ log = << >>
          /\ pc = "ret" => result = TruncatedInput
          /\ pc \in {"main", "exit"} => (Len(outcomes) = 1 /\ outcomes[1].result = TruncatedInput)
    /\ (pc \in {"extract", "copy"} \/ DOMAIN files # {}) =>
          /\ Len(file_list) = file_count
          /\ file_count = Len(Cur.members)
          /\ pos >= TocEnd(Cur.header, Cur.members)

\* C5 witness: the file ends inside the reserved bytes of its second TOC
\* entry; the seek has put the cursor past the end of the file and the read
\* of the size has failed.
C5_Witness ==
    /\ pc = "ret"
    /\ InToc(Cur)
    /\ result = TruncatedInput
    /\ Len(file_list) = 1
    /\ pos > Len(Cur.data)

\* C3 (as claimed): after a successful run every TOC entry, in TOC order, has
\* had exactly its own payload region (starting right after the TOC block
\* plus the sizes of the entries before it) written to
\* output_root/archive_stem/name; the whole input is consumed; with no
\* entries, no file exists and only the output folder was created.
C3_RegionsToDestinations ==
    (pc = "ret" /\ result.kind = "Ok") =>
        /\ Len(file_list) = Len(Cur.members)
        /\ Len(log) = Len(Cur.members)
        /\ \A k \in 1..Len(Cur.members) :
              /\ file_list[k].size = Cur.members[k].size
              /\ log[k].from = RegionStart(k)
              /\ log[k].data = Region(k)
              /\ log[k].path = ClaimedDest(k)
        /\ pos = Len(Whole)
        /\ Len(Cur.members) = 0 => (DOMAIN files = {} /\ dirs = BaseDirs)

\* The part of C3 about regions, with the destination the program computes:
\* it holds in every run.
RegionsInOrder ==
    (pc = "ret" /\ result.kind = "Ok") =>
        /\ Len(file_list) = Len(Cur.members)
        /\ Len(log) = Len(Cur.members)
        /\ \A k \in 1..Len(Cur.members) :
              /\ file_list[k].size = Cur.members[k].size
              /\ log[k].from = RegionStart(k)
              /\ log[k].data = Region(k)
              /\ log[k].path = Dest(k)
        /\ pos = Len(Whole)
        /\ Len(Cur.members) = 0 => (DOMAIN files = {} /\ dirs = BaseDirs)

\* what C4 says of the failing entry and of the entries after it: the file of
\* entry i holds the prefix of its payload that the input had, and the files
\* and directories on disk are those of the entries up to i
FailedEntryState ==
    /\ Dest(i) \in DOMAIN files
    /\ files[Dest(i)] = Slice(Cur.data, RegionStart(i), Available(Cur.data, RegionStart(i)))
    /\ Len(files[Dest(i)]) < file_list[i].size
    /\ DOMAIN files = {Dest(j) : j \in 1..i}
    /\ dirs = BaseDirs \cup UNION {DirsFor(j) : j \in 1..i}

\* C4 (as claimed): when the copy of entry i fails with the truncated-payload
\* error, the run returns that failure, the file of every earlier entry holds
\* its complete payload, the file of entry i holds the prefix transferred, and
\* nothing was created for a later entry.
C4_NoRollback ==
    CopyFailed =>
        /\ \A j \in 1..(i - 1) : Dest(j) \in DOMAIN files /\ files[Dest(j)] = Region(j)
        /\ FailedEntryState

\* C4 (amended): the same, the complete payload being claimed only of an
\* earlier entry whose destination no later entry up to i opened again.
C4_NoRollbackUnlessReopened ==
    CopyFailed =>
        /\ \A j \in 1..(i - 1) :
              /\ Dest(j) \in DOMAIN files
              /\ NotReopened(j, i) => files[Dest(j)] = Region(j)
        /\ FailedEntryState

\* C4 witness: the copy of the second entry failed after some of its bytes;
\* the first entry's file, elsewhere, is complete.
C4_Witness ==
    /\ CopyFailed
    /\ i = 2
    /\ Dest(1) # Dest(2)
    /\ Len(files[Dest(1)]) >= 1
    /\ files[Dest(1)] = Region(1)
    /\ Len(files[Dest(2)]) >= 1

\* the file at hand is its archive without the final byte
LostFinalByte == Cur.cut = Len(Whole) - 1

\* C6 (as claimed): a run over an archive without its final byte returns the
\* truncated-payload error from the copy of the last TOC entry, and the file
\* of every earlier entry holds its complete payload.
C6_FinalByte ==
    (pc = "ret" /\ LostFinalByte) =>
        /\ result.kind = "TruncatedPayload"
        /\ i = Len(Cur.members)
        /\ \A j \in 1..(i - 1) : Dest(j) \in DOMAIN files /\ files[Dest(j)] = Region(j)

\* C6 (amended): for an archive with at least one entry whose last entry has
\* a payload of at least one byte, the run fails; unless a directory or file
\* could not be created, it fails with the truncated-payload error from the
\* copy of the last entry, one byte remaining, and the file of every earlier
\* entry whose destination no later entry opened again holds its complete
\* payload.
C6_FinalByteOfLastPayload ==
    (/\ pc = "ret"
     /\ LostFinalByte
     /\ Len(Cur.members) >= 1
     /\ Cur.members[Len(Cur.members)].size >= 1) =>
        /\ result.kind \in {"TruncatedPayload", "FilesystemError"}
        /\ result.kind = "TruncatedPayload" =>
              /\ i = Len(Cur.members)
              /\ result.expected = Cur.members[i].size
              /\ result.remaining = 1
              /\ \A j \in 1..(i - 1) :
                    /\ Dest(j) \in DOMAIN files
                    /\ NotReopened(j, i) => files[Dest(j)] = Region(j)

\* C6 witness: two entries with payloads at different destinations; the
\* copy of the second failed for the one missing byte, the first is whole.
C6_Witness ==
    /\ pc = "ret"
    /\ LostFinalByte
    /\ Len(Cur.members) = 2
    /\ result.kind = "TruncatedPayload"
    /\ result.remaining = 1
    /\ i = 2
    /\ Dest(1) # Dest(2)
    /\ Cur.members[1].size >= 1
    /\ files[Dest(1)] = Region(1)

\* C10 (as claimed): every file on disk, and every directory besides the
\* archive's output folder and its ancestors, is output_root/archive_stem or
\* lies below it.
C10_Contained ==
    (idx >= 1 /\ pc \in {"extract", "copy", "ret"}) =>
        /\ \A p \in DOMAIN files : Inside(p)
        /\ \A d \in dirs : Inside(d) \/ d \in BaseDirs

\* C7: every archive of the batch that main has passed was run to its end and
\* reported before the next entry was taken, once each and in order; the
\* result reported for an archive is that archive's own, whatever the results
\* of the others; and main leaves its loop normally only when the directory
\* is exhausted, so that a failed archive never ends the batch.
C7_BatchIsolated ==
    /\ \A k \in 1..idx :
          (batch[k].kind = "mpkg" /\ (k < idx \/ pc \in {"main", "exit", "exit_err"}))
              => Reported(k)
    /\ \A o \in 1..Len(outcomes) :
          /\ batch[outcomes[o].arch].kind = "mpkg"
          /\ \A o2 \in (o + 1)..Len(outcomes) : outcomes[o2].arch > outcomes[o].arch
          /\ outcomes[o].result.kind \in {OwnKind(batch[outcomes[o].arch]), "IoError"}
    /\ pc = "exit" => idx = Len(batch)
    /\ pc = "exit_err" => batch[idx].kind = "ioerr"

\* C7 witness: the batch is done; its first archive failed with a truncated
\* payload and its second was then unpacked with success.
C7_Witness ==
    /\ pc = "exit"
    /\ Len(outcomes) = 2
    /\ outcomes[1].result.kind = "TruncatedPayload"
    /\ outcomes[2].result.kind = "Ok"

\* what C8 says of one step
StateMachineStep ==
    /\ Allowed(ArchState, ArchState', file_count)
    /\ ArchState[1] = "Idle" /\ ArchState'[1] = "Start" => idx' = idx + 1
    /\ pc # "open" => pos' >= pos
    /\ pc = "ret" => (pos' = pos /\ files' = files /\ dirs' = dirs /\ log' = log)
    /\ ArchState'[1] = "Done" =>
          /\ file_count' = Len(Cur.members)
          /\ Len(file_list') = file_count'
          /\ i' = file_count'
          /\ remaining' = 0
          /\ Cardinality(OpenedFiles') = file_count'

\* C8: the run of an archive takes only the transitions Start -> Opened ->
\* HeaderRead -> IndexBuilt -> Extracting(1) -> ... -> Extracting(N) -> Done
\* (IndexBuilt -> Done when N = 0) and, from any state before Done, Failed;
\* from Done or Failed nothing is read or written any more and the archive is
\* not run again; Done comes only after all N entries were extracted; the
\* cursor never moves backwards; and every run that starts ends in Done or
\* Failed.
C8_StateMachine ==
    /\ [][StateMachineStep]_vars
    /\ [](pc = "open" => <>(pc = "ret"))

\* C8 witness: Done, reached through Extracting(2).
C8_Witness ==
    /\ ArchState = << "Done", 0 >>
    /\ i = 2
    /\ Cardinality(OpenedFiles) = 2

\* C9: of two archives that differ only in their reserved fields, both runs
\* return the same result and build the same index, with the names and the
\* sizes the archive's TOC entries hold (each size read 4 bytes after its
\* name ends), and leave the same files with the same contents and the same
\* directories, each below its own output folder.
C9_ReservedIgnored ==
    /\ \A o \in 1..Len(outcomes) :
          \A k \in 1..Len(outcomes[o].index) :
              /\ outcomes[o].index[k].name = Lossy(batch[outcomes[o].arch].members[k].name)
              /\ outcomes[o].index[k].size = batch[outcomes[o].arch].members[k].size
    /\ pc = "exit" =>
          /\ Len(outcomes) = 2
          /\ outcomes[1].result = outcomes[2].result
          /\ outcomes[1].index = outcomes[2].index
          /\ \A p \in DOMAIN files : Swap(p) \in DOMAIN files /\ files[Swap(p)] = files[p]
          /\ \A d \in dirs : Swap(d) \in dirs

\* C9 witness: the two archives differ, and both were unpacked with success
\* into two files each, one of them with a payload.
C9_Witness ==
    /\ pc = "exit"
    /\ batch[1].data # batch[2].data
    /\ outcomes[2].result.kind = "Ok"
    /\ Len(outcomes[2].index) = 2
    /\ \E p \in DOMAIN files : Len(files[p]) = 2

====
